---- MODULE Spec2Model ----
(***************************************************************************)
(* SunspotDataset (aix360/datasets/sunspots_dataset.py): a loader that     *)
(* fixes two canonical paths at construction and whose load_data() reads   *)
(* the CSV at data_file with pandas, relabels the columns and returns the  *)
(* table with a literal schema.                                            *)
(*                                                                         *)
(* A text is a sequence of one-character strings, a line of the file is a  *)
(* sequence of field texts, a file is a sequence of lines.  A path is the  *)
(* sequence of its components below the root.                              *)
(***************************************************************************)
EXTENDS Integers, Sequences, FiniteSets, TLC

\* ------------------------------------------------------------------ bounds
MaxRows == 2
MaxFields == 3
MaxHeld == 1
MaxListLen == 1
MaxCalls == 2

\* ------------------------------------------------------------------- texts
Digits == {"0", "1", "2", "3", "4", "5", "6", "7", "8", "9"}

DigitVal(c) ==
    CASE c = "0" -> 0 [] c = "1" -> 1 [] c = "2" -> 2 [] c = "3" -> 3
      [] c = "4" -> 4 [] c = "5" -> 5 [] c = "6" -> 6 [] c = "7" -> 7
      [] c = "8" -> 8 [] c = "9" -> 9

RECURSIVE DigitsValue(_)
DigitsValue(s) ==
    IF s = <<>> THEN 0
    ELSE 10 * DigitsValue(SubSeq(s, 1, Len(s) - 1)) + DigitVal(s[Len(s)])

AllDigits(s) == \A i \in 1..Len(s) : s[i] \in Digits

DotAt(s) == {i \in 1..Len(s) : s[i] = "."}

\* The empty field is pandas' missing-value marker.
IsNA(s) == s = <<>>

\* pandas' int64 conversion of a field: digits only.
IsIntText(s) == Len(s) > 0 /\ AllDigits(s)

\* pandas' float64 conversion of a field: digits with at most one point.
IsFloatText(s) ==
    \/ IsIntText(s)
    \/ /\ Cardinality(DotAt(s)) = 1
       /\ Len(s) > 1
       /\ LET d == CHOOSE i \in DotAt(s) : TRUE
          IN  AllDigits(SubSeq(s, 1, d - 1)) /\ AllDigits(SubSeq(s, d + 1, Len(s)))

\* ------------------------------------------------------------------- cells
\* A cell of the table: an int64, a float64 (m * 10^-e, no trailing zero in
\* the fraction), a string, or NaN.
IntCell(n) == [t |-> "int", m |-> n, e |-> 0, s |-> <<>>]
StrCell(s) == [t |-> "str", m |-> 0, e |-> 0, s |-> s]
NaN == [t |-> "nan", m |-> 0, e |-> 0, s |-> <<>>]

RECURSIVE FloatCell(_, _)
FloatCell(m, e) ==
    IF e > 0 /\ m % 10 = 0 THEN FloatCell(m \div 10, e - 1)
    ELSE [t |-> "float", m |-> m, e |-> e, s |-> <<>>]

ParseInt(s) == IntCell(DigitsValue(s))

ParseFloat(s) ==
    IF IsNA(s) THEN NaN
    ELSE IF DotAt(s) = {} THEN FloatCell(DigitsValue(s), 0)
    ELSE LET d == CHOOSE i \in DotAt(s) : TRUE
             frac == SubSeq(s, d + 1, Len(s))
         IN  FloatCell(DigitsValue(SubSeq(s, 1, d - 1) \o frac), Len(frac))

ParseObject(s) == IF IsNA(s) THEN NaN ELSE StrCell(s)

\* The dtype pandas infers for a column from all of its fields: int64 when
\* every field is an integer, else float64 when every field is a number or
\* missing, else object.  A column of no rows is object.
InferDtype(col) ==
    IF col = <<>> THEN "object"
    ELSE IF \A i \in 1..Len(col) : IsIntText(col[i]) THEN "int64"
    ELSE IF \A i \in 1..Len(col) : IsNA(col[i]) \/ IsFloatText(col[i]) THEN "float64"
    ELSE "object"

ConvertColumn(col) ==
    LET dt == InferDtype(col)
    IN  [i \in 1..Len(col) |->
            IF dt = "int64" THEN ParseInt(col[i])
            ELSE IF dt = "float64" THEN ParseFloat(col[i])
            ELSE ParseObject(col[i])]

\* ---------------------------------------------------------------- read_csv
\* What a path holds: no file, or a file of some lines.
NoFile == [exists |-> FALSE, lines |-> <<>>]

File(lines) == [exists |-> TRUE, lines |-> lines]

Max(a, b) == IF a >= b THEN a ELSE b

\* The tokenizer closes a line: a line after the header that has fewer
\* fields than expected is padded with empty fields.
PadLine(line, n) == line \o [i \in 1..(n - Len(line)) |-> <<>>]

\* Fields expected in the data lines after the first: the first data line's
\* count after padding to the header's.
ExpectedFields(lines) == Max(Len(lines[1]), Len(lines[2]))

\* A data line after the first with more fields than expected is a
\* tokenizing error.
BadLines(lines) ==
    {i \in 3..Len(lines) : Len(lines[i]) > ExpectedFields(lines)}

\* Data fields beyond the header's count lead the row as its index.
LeadingCols(lines) ==
    IF Len(lines) < 2 THEN 0 ELSE Max(Len(lines[2]) - Len(lines[1]), 0)

\* ParseFrame without a header line (header=None): the first line is a row
\* like the others.
ParseFrameHeaderAsData(lines) ==
    LET width == IF Len(lines) < 2 THEN Len(lines[1]) ELSE ExpectedFields(lines)
        nrows == Len(lines)
        padded == [r \in 1..nrows |-> PadLine(lines[r], width)]
        column == [c \in 1..width |-> ConvertColumn([r \in 1..nrows |-> padded[r][c]])]
    IN  [columns |-> lines[1],
         index |-> [r \in 1..nrows |-> <<>>],
         rows |-> [r \in 1..nrows |-> [c \in 1..width |-> column[c][r]]]]

\* The frame parsed from the lines of a file (header=0).
ParseFrame(lines) ==
    LET header == lines[1]
        width == IF Len(lines) < 2 THEN Len(header) ELSE ExpectedFields(lines)
        lead == LeadingCols(lines)
        nrows == Len(lines) - 1
        padded == [r \in 1..nrows |-> PadLine(lines[r + 1], width)]
        column == [c \in 1..width |-> ConvertColumn([r \in 1..nrows |-> padded[r][c]])]
    IN  [columns |-> header,
         index |-> [r \in 1..nrows |-> [c \in 1..lead |-> column[c][r]]],
         rows |-> [r \in 1..nrows |-> [c \in 1..Len(header) |-> column[lead + c][r]]]]

NoFrame == [columns |-> <<>>, index |-> <<>>, rows |-> <<>>]

\* open(path): a missing file raises before any handle exists.
OpenFile(content) ==
    IF ~content.exists
        THEN [error |-> "FileNotFoundError", frame |-> NoFrame, open |-> FALSE]
    ELSE [error |-> "", frame |-> NoFrame, open |-> TRUE]

\* The parse of an opened file: an empty file has no columns to parse.
ParseOpened(h, content) ==
    IF content.lines = <<>> THEN [h EXCEPT !.error = "EmptyDataError"]
    ELSE IF BadLines(content.lines) # {} THEN [h EXCEPT !.error = "ParserError"]
    ELSE [h EXCEPT !.frame = ParseFrame(content.lines)]

\* CloseOnExit that closes only when the parse returns.
CloseOnSuccess(r) == IF r.error = "" THEN [r EXCEPT !.open = FALSE] ELSE r

\* read_csv holds the handle in a context manager, which closes it when the
\* parse returns and when it raises.
CloseOnExit(r) == [r EXCEPT !.open = FALSE]

\* ReadCsv that takes a missing file for a table of no rows.
ReadCsvOrEmpty(content) ==
    IF ~content.exists
        THEN [error |-> "", open |-> FALSE,
              frame |-> [columns |-> << <<"0">>, <<"1">> >>, index |-> <<>>, rows |-> <<>>]]
    ELSE CloseOnExit(ParseOpened(OpenFile(content), content))

\* pd.read_csv(path, header=0) on the content found at the path: the error
\* raised ("" for none), the frame, and whether the handle is still open.
ReadCsv(content) ==
    LET h == OpenFile(content)
    IN  IF h.error # "" THEN h ELSE CloseOnExit(ParseOpened(h, content))

\* SetColumns that checks the labels and leaves the header's in place.
SetColumnsKeepingHeader(frame, labels) ==
    IF Len(labels) # Len(frame.columns)
        THEN [error |-> "ValueError", frame |-> NoFrame]
    ELSE [error |-> "", frame |-> frame]

\* df.columns = labels: the labels must be as many as the columns.
SetColumns(frame, labels) ==
    IF Len(labels) # Len(frame.columns)
        THEN [error |-> "ValueError", frame |-> NoFrame]
    ELSE [error |-> "", frame |-> [frame EXCEPT !.columns = labels]]

\* ------------------------------------------------------------------- paths
\* os.path.dirname and os.path.join on component sequences.
Dirname(p) == SubSeq(p, 1, Len(p) - 1)

Join(p, rest) == p \o rest

LinkTarget(ls, p) == (CHOOSE l \in ls : l[1] = p)[2]

IsLink(ls, p) == \E l \in ls : l[1] = p

\* posixpath._joinrealpath: walk the components of rest from path, step up
\* on "..", and replace a symbolic link by the canonical path of its
\* (absolute) target.  ls is the set of <<link, target>> of the file system.
RECURSIVE JoinRealpath(_, _, _)
JoinRealpath(ls, path, rest) ==
    IF rest = <<>> THEN path
    ELSE LET name == Head(rest)
             newpath == Append(path, name)
         IN  IF name = "." THEN JoinRealpath(ls, path, Tail(rest))
             ELSE IF name = ".."
                 THEN JoinRealpath(ls, IF path = <<>> THEN path ELSE Dirname(path),
                                   Tail(rest))
             ELSE IF IsLink(ls, newpath)
                 THEN JoinRealpath(ls, JoinRealpath(ls, <<>>, LinkTarget(ls, newpath)),
                                   Tail(rest))
             ELSE JoinRealpath(ls, newpath, Tail(rest))

Realpath(ls, p) == JoinRealpath(ls, <<>>, p)

\* __file__ of the module.
ModuleFile == <<"lib", "aix360", "datasets", "sunspots_dataset.py">>

\* self.data_folder, computed in a file system whose links are ls.
DataFolder(ls) ==
    Realpath(ls, Join(Dirname(Realpath(ls, ModuleFile)),
                      <<"..", "data", "sunspots_data">>))

\* DataFile without the canonical form: the entry's path as joined.
DataFileJoined(ls, folder) == Join(folder, <<"sunspots.csv">>)

\* self.data_file.
DataFile(ls, folder) == Realpath(ls, Join(folder, <<"sunspots.csv">>))

\* ------------------------------------------------------------------ labels
month == <<"m", "o", "n", "t", "h">>
sunspots == <<"s", "u", "n", "s", "p", "o", "t", "s">>

\* ------------------------------------------------------------------ inputs
\* Field texts of the data lines: a line is the first n fields of one of
\* these rows, repeated from the start past their end.
RowTemplates ==
    << << <<"1", "7", "4", "9", "-", "0", "1">>, <<"5", "8">>, <<"0">> >>,
       << <<"1", "7", "5", "0">>, <<"6", "2", ".", "6">>, <<"1", ".", "5">> >> >>

\* Header lines: the first n labels of one of these rows.
HeaderTemplates ==
    << << <<"Y", "e", "a", "r">>, <<"C", "o", "u", "n", "t">>,
          <<"N", "o", "t", "e">> >>,
       << month, sunspots, <<"f", "l", "a", "g">> >> >>

Prefix(template, n) ==
    [j \in 1..n |-> template[((j - 1) % Len(template)) + 1]]

DataLines ==
    {Prefix(RowTemplates[k], n) : k \in 1..Len(RowTemplates), n \in 1..MaxFields}

Headers ==
    {Prefix(HeaderTemplates[k], n) : k \in 1..Len(HeaderTemplates), n \in 1..MaxFields}

\* The files of the model: the empty file, and a header line followed by at
\* most MaxRows data lines.
Files ==
    {File(<<>>)} \cup
    {File(<<h>> \o rows) : h \in Headers,
                           rows \in UNION {[1..n -> DataLines] : n \in 0..MaxRows}}

\* The data file's path when no component is a symbolic link.
DefaultDataFile == <<"lib", "aix360", "data", "sunspots_data", "sunspots.csv">>

\* Symbolic links the file system may hold: the package's datasets
\* directory, the data folder, and the CSV entry of the data folder.
AllLinks ==
    { << <<"lib", "aix360", "datasets">>, <<"src", "datasets">> >>,
      << <<"lib", "aix360", "data", "sunspots_data">>, <<"mnt", "sunspots">> >>,
      << DefaultDataFile, <<"mnt", "v2.csv">> >> }

\* The paths a data file can be found at under these links.
DataPaths ==
    { DefaultDataFile,
      <<"src", "data", "sunspots_data", "sunspots.csv">>,
      <<"mnt", "sunspots", "sunspots.csv">>,
      <<"mnt", "v2.csv">> }

\* ------------------------------------------------------------------- state
VARIABLES
    links,      \* the symbolic links of the file system
    fs,         \* the content of the file at each data path, or NoFile
    loader,     \* the SunspotDataset object: NoLoader, or its two paths
    heap,       \* the objects load_data has built that are still referenced
    ret,        \* what the last load_data call gave its caller
    held,       \* earlier results the caller has kept
    handles,    \* the file handles that are open
    opened,     \* the path the last load_data call passed to read_csv
    last,       \* the operation that led to this state
    calls       \* load_data calls since the loader or the file system last changed

vars == <<links, fs, loader, heap, ret, held, handles, opened, last, calls>>

NoLoader == [data_folder |-> <<>>, data_file |-> <<>>]

NoResult == [kind |-> "none", error |-> "", df |-> 0, schema |-> 0]

Raised(e) == [kind |-> "error", error |-> e, df |-> 0, schema |-> 0]

Returned(f, s) == [kind |-> "ok", error |-> "", df |-> f, schema |-> s]

EmptyHeap == [frames |-> <<>>, dicts |-> <<>>, lists |-> <<>>]

\* FreshId that hands out a live object again.
ReusedId(used) == IF used = {} THEN 1 ELSE CHOOSE i \in used : \A j \in used : i <= j

\* A new object never has the identity of a live one.
FreshId(used) == CHOOSE i \in 1..(Cardinality(used) + 1) : i \notin used

\* The objects reachable from the results in rs.
Collect(h, rs) ==
    LET fr == {r.df : r \in rs}
        di == {r.schema : r \in rs}
        li == UNION {{h.dicts[d].targets, h.dicts[d].external_regressors} : d \in di}
    IN  [frames |-> [i \in fr |-> h.frames[i]],
         dicts |-> [i \in di |-> h.dicts[i]],
         lists |-> [i \in li |-> h.lists[i]]]

\* What a result holds, its references followed.
ValueOf(h, r) ==
    IF r.kind # "ok" THEN [kind |-> r.kind, error |-> r.error]
    ELSE [kind |-> "ok", error |-> "",
          df |-> h.frames[r.df],
          schema |-> [h.dicts[r.schema] EXCEPT
                        !.targets = h.lists[h.dicts[r.schema].targets],
                        !.external_regressors =
                            h.lists[h.dicts[r.schema].external_regressors]]]

\* ------------------------------------------------------------------ schema
\* The labels load_data gives the columns.
ColumnLabels == <<month, sunspots>>

\* The lists load_data builds for the schema.
Targets == <<"sunspots">>

\* ExternalRegressors as a list the calls share and each call extends.
ExternalRegressorsShared ==
    IF ret.kind = "ok"
        THEN Append(heap.lists[heap.dicts[ret.schema].external_regressors], "sunspots")
    ELSE <<>>

ExternalRegressors == <<>>

\* Schema whose timestamp is the first label of the file's header.
SchemaFromHeader(targets, regressors) ==
    [name |-> "sunspots",
     description |->
        "monthly count of the number of observed sunspots for just over 230 years (1749-1983)",
     timestamp |->
        IF fs[DefaultDataFile].lines[1][1] = month THEN "month" ELSE "Year",
     targets |-> targets,
     frequency |-> "M",
     external_regressors |-> regressors]

\* The schema dict load_data builds; its two lists are objects of their own,
\* named here by their ids.
Schema(targets, regressors) ==
    [name |-> "sunspots",
     description |->
        "monthly count of the number of observed sunspots for just over 230 years (1749-1983)",
     timestamp |-> "month",
     targets |-> targets,
     frequency |-> "M",
     external_regressors |-> regressors]

\* open() follows the symbolic links of the moment.
ContentAt(files, ls, path) ==
    LET real == Realpath(ls, path)
    IN  IF real \in DOMAIN files THEN files[real] ELSE NoFile

\* -------------------------------------------------------------- operations
\* SunspotDataset(): the two paths are computed; no file is opened.
SunspotDataset ==
    /\ loader' = [data_folder |-> DataFolder(links),
                  data_file |-> DataFile(links, DataFolder(links))]
    /\ calls' = IF loader' # loader THEN 0 ELSE calls
    /\ last' = "init"
    /\ UNCHANGED <<links, fs, heap, ret, held, handles, opened>>

\* Lines 46-47: the frame read from data_file, relabelled.
LoadFrame(content) ==
    LET r == ReadCsv(content)
        renamed == SetColumns(r.frame, ColumnLabels)
    IN  IF r.error # "" THEN r
        ELSE [error |-> renamed.error, frame |-> renamed.frame, open |-> r.open]

\* What load_data computes: the frame, then the schema and its lists as new
\* objects; the previous result is dropped when the caller has not kept it.
LoadState ==
    LET r == LoadFrame(ContentAt(fs, links, loader.data_file))
        fId == FreshId(DOMAIN heap.frames)
        sId == FreshId(DOMAIN heap.dicts)
        tId == FreshId(DOMAIN heap.lists)
        eId == FreshId(DOMAIN heap.lists \cup {tId})
        built == [frames |-> (fId :> r.frame) @@ heap.frames,
                  dicts |-> (sId :> Schema(tId, eId)) @@ heap.dicts,
                  lists |-> (tId :> Targets) @@ (eId :> ExternalRegressors) @@ heap.lists]
        result == IF r.error = "" THEN Returned(fId, sId) ELSE Raised(r.error)
    IN  /\ ret' = result
        /\ heap' = IF r.error = "" THEN Collect(built, held \cup {result})
                   ELSE Collect(heap, held)
        /\ handles' = handles + (IF r.open THEN 1 ELSE 0)
        /\ opened' = loader.data_file
        /\ last' = "load_data"
        /\ calls' = IF calls < MaxCalls THEN calls + 1 ELSE calls

\* load_data that opens the file for writing too, which empties it.
load_data_truncating ==
    /\ loader # NoLoader
    /\ LoadState
    /\ fs' = [p \in DOMAIN fs |->
                IF p = Realpath(links, loader.data_file) /\ fs[p].exists
                    THEN File(<<>>) ELSE fs[p]]
    /\ UNCHANGED <<links, loader, held>>

load_data ==
    /\ loader # NoLoader
    /\ LoadState
    /\ UNCHANGED <<links, fs, loader, held>>

\* ------------------------------------------------------------- environment
\* The file at a data path is deleted.
RemoveFile(p) ==
    /\ fs[p].exists
    /\ fs' = [fs EXCEPT ![p] = NoFile]
    /\ calls' = 0
    /\ last' = "env"
    /\ UNCHANGED <<links, loader, heap, ret, held, handles, opened>>

\* A data line is appended to the file at a data path.
AppendRow(p, line) ==
    /\ fs[p].exists
    /\ Len(fs[p].lines) >= 1
    /\ Len(fs[p].lines) <= MaxRows
    /\ fs' = [fs EXCEPT ![p].lines = Append(@, line)]
    /\ calls' = 0
    /\ last' = "env"
    /\ UNCHANGED <<links, loader, heap, ret, held, handles, opened>>

\* A symbolic link is created or removed.
AddLink(l) ==
    /\ l \notin links
    /\ links' = links \cup {l}
    /\ calls' = 0
    /\ last' = "env"
    /\ UNCHANGED <<fs, loader, heap, ret, held, handles, opened>>

RemoveLink(l) ==
    /\ l \in links
    /\ links' = links \ {l}
    /\ calls' = 0
    /\ last' = "env"
    /\ UNCHANGED <<fs, loader, heap, ret, held, handles, opened>>

\* ------------------------------------------------------------------ caller
\* The caller keeps the last result beside the ones it already holds.
Keep ==
    /\ ret.kind = "ok"
    /\ ret \notin held
    /\ Cardinality(held) < MaxHeld
    /\ held' = held \cup {ret}
    /\ last' = "caller"
    /\ UNCHANGED <<links, fs, loader, heap, ret, handles, opened, calls>>

\* The caller appends to a list of a schema it was given.
CallerAppend(i) ==
    /\ Len(heap.lists[i]) < MaxListLen
    /\ heap' = [heap EXCEPT !.lists[i] = Append(@, "extra")]
    /\ last' = "caller"
    /\ UNCHANGED <<links, fs, loader, ret, held, handles, opened, calls>>

\* The caller renames the second column of a table it was given.
CallerRename(i) ==
    /\ heap.frames[i].columns[2] # <<"n">>
    /\ heap' = [heap EXCEPT !.frames[i].columns[2] = <<"n">>]
    /\ last' = "caller"
    /\ UNCHANGED <<links, fs, loader, ret, held, handles, opened, calls>>

\* ---------------------------------------------------------- specifications
InitCommon ==
    /\ loader = NoLoader
    /\ heap = EmptyHeap
    /\ ret = NoResult
    /\ held = {}
    /\ handles = 0
    /\ opened = <<>>
    /\ last = "new"
    /\ calls = 0

\* Any file of the model at the data path, no symbolic links.
Init ==
    /\ links = {}
    /\ fs \in [{DefaultDataFile} -> Files \cup {NoFile}]
    /\ InitCommon

Next ==
    \/ SunspotDataset
    \/ load_data
    \/ \E p \in DOMAIN fs : RemoveFile(p)
    \/ \E p \in DOMAIN fs, line \in DataLines : AppendRow(p, line)

Spec == Init /\ [][Next]_vars

\* The file systems of the path specification: each data path holds no file
\* or one of two files, under any of the links.
PathFiles ==
    { File(<< Prefix(HeaderTemplates[1], 2), Prefix(RowTemplates[1], 2) >>),
      File(<< Prefix(HeaderTemplates[2], 2), Prefix(RowTemplates[2], 2) >>) }

InitPath ==
    /\ links \in SUBSET AllLinks
    /\ fs \in [DataPaths -> PathFiles \cup {NoFile}]
    /\ InitCommon

NextPath ==
    \/ SunspotDataset
    \/ load_data
    \/ \E l \in AllLinks : AddLink(l)
    \/ \E l \in AllLinks : RemoveLink(l)

SpecPath == InitPath /\ [][NextPath]_vars

\* The caller's specification: a well-formed file or none at the data path,
\* and a caller that keeps and modifies what load_data gave it.
AliasFiles == {f \in Files : Len(f.lines) = 2 /\ \A i \in 1..2 : Len(f.lines[i]) = 2}

InitAlias ==
    /\ links = {}
    /\ fs \in [{DefaultDataFile} -> AliasFiles \cup {NoFile}]
    /\ InitCommon

NextAlias ==
    \/ SunspotDataset
    \/ load_data
    \/ Keep
    \/ \E i \in DOMAIN heap.lists : CallerAppend(i)
    \/ \E i \in DOMAIN heap.frames : CallerRename(i)
    \/ \E p \in DOMAIN fs : RemoveFile(p)

SpecAlias == InitAlias /\ [][NextAlias]_vars

\* ------------------------------------------------------------------ claims
\* The file load_data reads in the current state, and what it returned.
TheFile == ContentAt(fs, links, loader.data_file)

Result == ValueOf(heap, ret)

Loaded == last = "load_data"

\* C1: a successful load_data() returns a table whose column labels are
\* exactly month, sunspots, whatever the header row of the file held; and
\* it succeeds only on a file whose header has two fields.
C1_ColumnsRelabelled ==
    (Loaded /\ ret.kind = "ok") =>
        /\ Result.df.columns =
              << <<"m", "o", "n", "t", "h">>,
                 <<"s", "u", "n", "s", "p", "o", "t", "s">> >>
        /\ Len(TheFile.lines[1]) = 2

\* C1's case: a load of a file whose header is Year,Count has succeeded.
C1_Witness ==
    /\ Loaded
    /\ ret.kind = "ok"
    /\ TheFile.lines[1] = << <<"Y", "e", "a", "r">>, <<"C", "o", "u", "n", "t">> >>
    /\ Len(TheFile.lines) = 3

\* A file of two columns: a header and data lines of two fields each.
TwoColumnFile(f) ==
    /\ f.exists
    /\ Len(f.lines) >= 1
    /\ \A i \in 1..Len(f.lines) : Len(f.lines[i]) = 2

RECURSIVE Pow10(_)
Pow10(n) == IF n = 0 THEN 1 ELSE 10 * Pow10(n - 1)

\* The number a numeric text denotes is mantissa / 10^scale.
TextScale(text) ==
    IF DotAt(text) = {} THEN 0 ELSE Len(text) - (CHOOSE i \in DotAt(text) : TRUE)

TextMantissa(text) ==
    DigitsValue(SelectSeq(text, LAMBDA c : c # "."))

\* The cell holds the value the field text states: the same text, or the
\* same number, or both are missing.
SameValue(text, cell) ==
    \/ cell.t = "str" /\ cell.s = text
    \/ cell.t = "nan" /\ text = <<>>
    \/ /\ cell.t \in {"int", "float"}
       /\ IsFloatText(text)
       /\ cell.m * Pow10(TextScale(text)) = TextMantissa(text) * Pow10(cell.e)

\* C2: on a two-column file of a header and N data lines load_data() returns
\* N rows, the i-th row holding the values of the i-th data line in file
\* order; the header is not a row and no row is indexed by a field.
C2_RowsAsInFile ==
    (Loaded /\ TwoColumnFile(TheFile)) =>
        /\ ret.kind = "ok"
        /\ Len(Result.df.rows) = Len(TheFile.lines) - 1
        /\ \A i \in 1..Len(Result.df.rows) :
              /\ Len(Result.df.rows[i]) = 2
              /\ \A j \in 1..2 : SameValue(TheFile.lines[i + 1][j], Result.df.rows[i][j])
        /\ \A i \in 1..Len(Result.df.index) : Result.df.index[i] = <<>>

\* C2's case: a two-column file of two different data lines has been
\* loaded, its second column holding 58 and then 62.6.
C2_Witness ==
    /\ Loaded
    /\ TwoColumnFile(TheFile)
    /\ Len(TheFile.lines) = 3
    /\ TheFile.lines[2][2] = <<"5", "8">>
    /\ TheFile.lines[3][2] = <<"6", "2", ".", "6">>

\* C3: every successful load_data() returns exactly the literal schema of
\* six keys, whatever file was read.
C3_SchemaLiteral ==
    ret.kind = "ok" =>
        /\ DOMAIN Result.schema =
              {"name", "description", "timestamp", "targets", "frequency",
               "external_regressors"}
        /\ Result.schema.name = "sunspots"
        /\ Result.schema.description =
              "monthly count of the number of observed sunspots for just over 230 years (1749-1983)"
        /\ Result.schema.timestamp = "month"
        /\ Result.schema.targets = <<"sunspots">>
        /\ Result.schema.frequency = "M"
        /\ Result.schema.external_regressors = <<>>

\* C3's case: a load of a file whose header is not month,sunspots and that
\* has a data line has succeeded.
C3_Witness ==
    /\ Loaded
    /\ ret.kind = "ok"
    /\ TheFile.lines[1][1] # <<"m", "o", "n", "t", "h">>
    /\ Len(TheFile.lines) = 2

\* C4: a load_data() call that follows another with the loader and the file
\* system unchanged in between returns what that call returned: an equal
\* table and schema, or the same error.
C4_Idempotent ==
    [][(last' = "load_data" /\ calls >= 1) =>
          ValueOf(heap', ret') = ValueOf(heap, ret)]_vars

\* C4's case: a second successive call on an unchanged file has returned a
\* table with rows.
C4_Witness ==
    /\ Loaded
    /\ calls = 2
    /\ ret.kind = "ok"
    /\ Result.df.rows # <<>>

\* A file that carries other than two columns: its header has not two
\* fields, or some line has a third field.
Malformed(f) ==
    /\ f.exists
    /\ f.lines # <<>>
    /\ \/ Len(f.lines[1]) # 2
       \/ \E i \in 1..Len(f.lines) : Len(f.lines[i]) > 2

\* C5: load_data() on a file that carries other than two columns ends in an
\* error and returns no table, also when it is the data lines that have
\* more fields than the header.
C5_MalformedRaises ==
    (Loaded /\ Malformed(TheFile)) => ret.kind = "error"

\* C6: load_data() on an absent file raises FileNotFoundError as it comes,
\* and returns neither a table nor a schema.
C6_MissingFileRaises ==
    (Loaded /\ ~TheFile.exists) =>
        /\ ret = [kind |-> "error", error |-> "FileNotFoundError", df |-> 0, schema |-> 0]
        /\ heap = [frames |-> <<>>, dicts |-> <<>>, lists |-> <<>>]

\* C6's case: load_data() has been called with the file absent.
C6_Witness == Loaded /\ ~TheFile.exists /\ ret.kind # "none"

\* C7: a load_data() call, however it ends, leaves the loader's paths, the
\* file system and the results the caller holds as they were.
C7_NoSideEffect ==
    [][last' = "load_data" =>
          /\ loader' = loader
          /\ fs' = fs
          /\ links' = links
          /\ held' = held]_vars

\* C7's case: calls have ended in a parse error.
C7_Witness == Loaded /\ ret.error = "ParserError" /\ calls = 2

\* C8: no file handle is open in any state, in particular after a
\* load_data() call has returned or raised.
C8_HandleReleased == handles = 0

\* C8's case: a call has failed in the column rename, after the read.
C8_Witness == Loaded /\ ret.error = "ValueError" /\ Len(TheFile.lines) >= 2

\* No component of the path is a symbolic link.
SymlinkFree(ls, p) == \A n \in 1..Len(p) : ~IsLink(ls, SubSeq(p, 1, n))

\* The entry sunspots.csv of the loader's data folder.
CsvEntry(l) == Append(l.data_folder, "sunspots.csv")

\* C9: construction opens and reads nothing and raises nothing, whether or
\* not the data file exists; it fixes data_folder and data_file, canonical
\* paths, data_file being the entry sunspots.csv of data_folder (the file
\* that entry leads to when it is a link); a file error comes from
\* load_data() alone, which reads the data_file fixed at construction.
C9_ConstructionFixesPaths ==
    [][/\ last' = "init" =>
            /\ ret' = ret /\ heap' = heap /\ handles' = handles
            /\ opened' = opened /\ fs' = fs
            /\ SymlinkFree(links, loader'.data_folder)
            /\ SymlinkFree(links, loader'.data_file)
            /\ Realpath(links, CsvEntry(loader')) = loader'.data_file
            /\ ~IsLink(links, CsvEntry(loader')) => loader'.data_file = CsvEntry(loader')
       /\ last' = "load_data" =>
            /\ loader' = loader
            /\ opened' = loader.data_file
            /\ ret' = IF ContentAt(fs, links, loader.data_file).exists
                        THEN [kind |-> "ok", error |-> "", df |-> ret'.df,
                              schema |-> ret'.schema]
                      ELSE [kind |-> "error", error |-> "FileNotFoundError",
                            df |-> 0, schema |-> 0]
       /\ (ret'.kind = "error" /\ ret' # ret) => last' = "load_data"
      ]_vars

\* C9's case: a loader has been constructed with no file at its data_file,
\* the CSV entry of its data folder being a symbolic link.
C9_Witness ==
    /\ last = "init"
    /\ ~TheFile.exists
    /\ IsLink(links, CsvEntry(loader))
    /\ loader.data_file # CsvEntry(loader)

\* The lists of a result's schema.
ListsOf(r) == {heap.dicts[r.schema].targets, heap.dicts[r.schema].external_regressors}

\* C10: the table, the schema and the schema's two lists that a load_data()
\* call returns are new objects, none of them an object of a result the
\* caller holds; so whatever the caller did to those, the call returns the
\* literal schema and the table of the file.
C10_FreshObjects ==
    (Loaded /\ ret.kind = "ok") =>
        /\ \A h \in held \ {ret} :
              /\ h.df # ret.df
              /\ h.schema # ret.schema
              /\ ListsOf(h) \cap ListsOf(ret) = {}
        /\ heap.dicts[ret.schema].targets # heap.dicts[ret.schema].external_regressors
        /\ Result.schema.targets = <<"sunspots">>
        /\ Result.schema.external_regressors = <<>>
        /\ Result.schema.frequency = "M"
        /\ Result.df.columns =
              << <<"m", "o", "n", "t", "h">>,
                 <<"s", "u", "n", "s", "p", "o", "t", "s">> >>
        /\ Len(Result.df.rows) = Len(TheFile.lines) - 1
        /\ DOMAIN loader = {"data_folder", "data_file"}

\* C10's case: load_data() has returned while the caller holds an earlier
\* result whose external_regressors it appended to and whose column it
\* renamed.
C10_Witness ==
    /\ Loaded
    /\ ret.kind = "ok"
    /\ \E h \in held \ {ret} :
          /\ heap.lists[heap.dicts[h.schema].external_regressors] # <<>>
          /\ heap.frames[h.df].columns[2] = <<"n">>

====
